---- MODULE Spec2Model ----
(***************************************************************************)
(* The runtime provisioning scripts of qbrt as a state machine: one Node   *)
(* process executing bin/postinstall.js (or its older near-duplicate, the  *)
(* unnamed entry script), its synchronous module body, its I/O callbacks   *)
(* and its promise reactions (Spec). Five components are also exercised    *)
(* on their own: the redirect-following download (SpecFetch), the win32 /  *)
(* linux installer steps run after run (SpecInstaller),                    *)
(* bin/postinstall-xulapp.js run as a script (SpecXulapp), the post-install *)
(* chain from a fulfilled install promise (SpecChain), and the             *)
(* GlobalShortcut object of shell/shell.js (SpecShell).                    *)
(*                                                                         *)
(* Node semantics assumed (the Node 6-8 line the code was written for):    *)
(*  - promise reactions are microtasks, run FIFO after the running         *)
(*    callback returns and before any other callback;                      *)
(*  - an exception thrown by a callback that is not inside a promise       *)
(*    reaction is an uncaught exception: the process dies with code 1      *)
(*    and pending reactions do not run;                                    *)
(*  - an unhandled promise rejection only prints a warning;                *)
(*  - fs.writeFile may be called without a callback.                       *)
(***************************************************************************)
EXTENDS Integers, Sequences, FiniteSets, TLC

VARIABLES
  script,        \* which script runs: "postinstall", "part_000", "xulapp", "shell"
  platform,      \* process.platform
  arch,          \* process.arch
  proc,          \* "load" | "running" | "exited" | "crashed"
  exitCode,      \* process exit code, -1 while the process lives
  ops,           \* log of the operations performed and events delivered, in order
  jobs,          \* microtask queue: promise reactions waiting to run
  pending,       \* asynchronous operations in flight
  recordFile,    \* the persisted version record (runtime-info.json / firefox.json)
  record0,       \* history: the record as it was when the run began
  infoBody,      \* the text the metadata endpoint serves
  installTree,   \* dist/<platform>/runtime or Runtime.app
  tree0,         \* history: the install tree as it was when the run began
  tempDir,       \* the mkdtemp directory exists
  tempFile,      \* the downloaded archive exists in tempDir
  mounted,       \* the disk image is attached at mountPoint
  currentBrowserInfo,  \* let currentBrowserInfo / currentFirefoxInfo
  oldFirefoxInfo, \* const oldFirefoxInfo of the readFile callback
  filePath,      \* let filePath
  fileStream,    \* let fileStream: "undefined" | "open" | "ending" | "finished"
  checkPromise,  \* the version-check promise: "pending" | "resolved" | "rejected"
  finishPromise, \* the promise around fileStream 'finish': "none" | "pending" | ...
  installRuntime, \* var installRuntime: "undefined" | "pending" | "rejected"
  redirects,     \* redirect hops followed by download()
  writing,       \* the text an fs.writeFile in flight is writing to the record
  url,           \* download(url): the URL of the binary request in flight
  location,      \* response.headers.location of the last redirect response
  fetch,         \* the downloadRuntime promise: "idle" | "requesting" | "resolved" | ...
  runtimeDir,    \* dist/<platform>/runtime as a directory of entries
  firefoxDir,    \* dist/<platform>/firefox, the directory the archive expands into
  archive,       \* the entries of the archive handed to the installer
  source,        \* const source = filePath of the installer
  installStep,   \* how far the installer has come
  installRun,    \* which run of the installer this is
  sourceFiles,   \* the companion entries present in the source distribution
  targetDir,     \* <resourcesDir>/qbrt exists
  copying,       \* companion entries whose fs.copy is in flight
  copied,        \* companion entries copied into targetDir
  allCopies,     \* the Promise.all over the copies: "none" | "pending" | ...
  installError,  \* the reason install() was rejected with, "none" if it was not
  browserDir,    \* <resourcesDir>/qbrt/browser, the directory omni.ja expands into
  prefsDir,      \* files copied into <resourcesDir>/qbrt/defaults/preferences
  prefsJs,       \* the lines appended to defaults/preferences/prefs.js
  stubs,         \* the launcher stubs copied into the install tree, with their directory
  infoPlist,     \* Contents/Info.plist: its entries in file order
  plist0,        \* history: Info.plist as it was when the chain began
  accelerators,  \* shell: this.accelerators
  acceleratorsRegistered, \* shell: this.acceleratorsRegistered, as its set of entries
  invoked,       \* shell: the callbacks invoked so far
  calls,         \* shell: history of the calls made and events delivered
  loaded         \* shell: the window's load handler has run

vars == <<script, platform, arch, proc, exitCode, ops, jobs, pending, recordFile,
          record0, infoBody, installTree, tree0, tempDir, tempFile, mounted,
          currentBrowserInfo, oldFirefoxInfo, filePath, fileStream, checkPromise,
          finishPromise, installRuntime, redirects, writing, url, location, fetch,
          runtimeDir, firefoxDir, archive, source, installStep, installRun,
          sourceFiles, targetDir, copying, copied, allCopies, installError,
          browserDir, prefsDir, prefsJs, stubs, infoPlist, plist0,
          accelerators, acceleratorsRegistered, invoked, calls, loaded>>

\* the state of the components that are exercised on their own
fetchVars == <<url, location, fetch>>
installerVars == <<runtimeDir, firefoxDir, archive, source, installStep, installRun>>
graftVars == <<sourceFiles, targetDir, copying, copied, allCopies, installError>>
chainVars == <<browserDir, prefsDir, prefsJs, stubs, infoPlist, plist0>>
shellVars == <<accelerators, acceleratorsRegistered, invoked, calls, loaded>>
aux == <<fetchVars, installerVars, graftVars, chainVars, shellVars>>

-----------------------------------------------------------------------------
(* Bounds of the model *)

\* redirect hops the environment serves before a final response or an error
MaxRedirects == 1

-----------------------------------------------------------------------------
(* JavaScript values and JSON *)

Keys == <<"buildid", "target_alias">>
Undefined == [type |-> "undefined"]
\* a plain object with the two descriptor properties; an absent one reads "undefined"
Obj(b, a) == [type |-> "object", buildid |-> b, target_alias |-> a]
EmptyObj == Obj("undefined", "undefined")

Punct == {"{", "}", ":", ",", "\n", "[", "]", "<", ">"}

RECURSIVE StripNewlines(_)
\* JSON.parse ignores trailing whitespace
StripNewlines(t) ==
  IF Len(t) > 0 /\ t[Len(t)] = "\n" THEN StripNewlines(SubSeq(t, 1, Len(t) - 1)) ELSE t

RECURSIVE MembersOk(_)
\* key : value ( , key : value )*
MembersOk(m) ==
  /\ Len(m) >= 3
  /\ m[1] \notin Punct /\ m[2] = ":" /\ m[3] \notin Punct
  /\ \/ Len(m) = 3
     \/ Len(m) > 4 /\ m[4] = "," /\ MembersOk(SubSeq(m, 5, Len(m)))

RECURSIVE Lookup(_, _)
\* the value of the last member named k, "undefined" when there is none
Lookup(m, k) ==
  IF Len(m) < 3 THEN "undefined"
  ELSE LET rest == Lookup(SubSeq(m, 5, Len(m)), k)
       IN IF rest # "undefined" THEN rest
          ELSE IF m[1] = k THEN m[3] ELSE "undefined"

\* JSON.parse over a token sequence: [ok |-> FALSE] is a thrown SyntaxError
JSONparse(text) ==
  LET t == StripNewlines(text)
      inner == SubSeq(t, 2, Len(t) - 1)
  IN IF Len(t) < 2 \/ t[1] # "{" \/ t[Len(t)] # "}"
     THEN [ok |-> FALSE, value |-> Undefined]
     ELSE IF inner = <<>> THEN [ok |-> TRUE, value |-> EmptyObj]
     ELSE IF MembersOk(inner)
          THEN [ok |-> TRUE,
                value |-> Obj(Lookup(inner, "buildid"), Lookup(inner, "target_alias"))]
          ELSE [ok |-> FALSE, value |-> Undefined]

RECURSIVE StringifyFrom(_, _)
\* the members of o from key i on, properties holding undefined left out
StringifyFrom(o, i) ==
  IF i > Len(Keys) THEN <<>>
  ELSE LET rest == StringifyFrom(o, i + 1)
       IN IF o[Keys[i]] = "undefined" THEN rest
          ELSE <<Keys[i], ":", o[Keys[i]]>> \o (IF rest = <<>> THEN <<>> ELSE <<",">> \o rest)

\* JSON.stringify(o, null, 2) of a plain object
JSONstringify(o) == <<"{">> \o StringifyFrom(o, 1) \o <<"}">>

\* String(x) of an object that does not override toString, such as http.IncomingMessage
ObjectToString == <<"[", "object", "Object", "]">>

\* a file: absent, or holding text
NoFile == [exists |-> FALSE, text |-> <<>>]
File(text) == [exists |-> TRUE, text |-> text]

GarbageText == <<"<", "html", ">">>

-----------------------------------------------------------------------------
(* Platform profile *)

Scripts == {"postinstall", "part_000"}
Platforms == {"win32", "linux", "darwin", "freebsd"}
Archs == {"ia32", "x64", "arm"}

\* const DOWNLOAD_OS: "throw" is the thrown Error, "undefined" the switch falling through
DOWNLOAD_OS(p, a) ==
  CASE p = "win32" -> (CASE a = "ia32" -> "win" [] a = "x64" -> "win64" [] OTHER -> "throw")
    [] p = "linux" -> (CASE a = "ia32" -> "linux" [] a = "x64" -> "linux64" [] OTHER -> "throw")
    [] p = "darwin" -> "osx"
    [] OTHER -> "undefined"

\* DOWNLOAD_INFO_URLS[DOWNLOAD_OS] is a non-empty string
DOWNLOAD_INFO_URL(os) == os \in {"linux", "linux64", "osx", "win", "win64"}

\* FILE_EXTENSIONS[contentType]
FILE_EXTENSIONS(ctype) ==
  CASE ctype = "application/x-apple-diskimage" -> "dmg"
    [] ctype = "application/zip" -> "zip"
    [] ctype = "application/x-tar" -> "tar.bz2"
    [] OTHER -> "undefined"

ContentTypes == {"application/x-apple-diskimage", "application/zip",
                 "application/x-tar", "text/html"}

\* path.join(tempDir, `runtime.${extension}`)
RuntimeFile(ext) ==
  CASE ext = "dmg" -> "runtime.dmg"
    [] ext = "zip" -> "runtime.zip"
    [] ext = "tar.bz2" -> "runtime.tar.bz2"
    [] OTHER -> "runtime.undefined"

-----------------------------------------------------------------------------
(* The process *)

Job(name, arg) == [name |-> name, arg |-> arg]

\* a directory: absent, or present with a set of entries
NoDir == [exists |-> FALSE, entries |-> {}]
Dir(entries) == [exists |-> TRUE, entries |-> entries]

\* the components not started
FetchIdle == url = <<>> /\ location = <<>> /\ fetch = "idle"
InstallerIdle ==
  /\ runtimeDir = NoDir
  /\ firefoxDir = NoDir
  /\ archive = {}
  /\ source = "undefined"
  /\ installStep = "none"
  /\ installRun = 0
GraftIdle ==
  /\ sourceFiles = {}
  /\ targetDir = FALSE
  /\ copying = {}
  /\ copied = {}
  /\ allCopies = "none"
  /\ installError = "none"
ChainIdle ==
  /\ browserDir = NoDir
  /\ prefsDir = {}
  /\ prefsJs = <<>>
  /\ stubs = {}
  /\ infoPlist = <<>>
  /\ plist0 = <<>>
ShellIdle ==
  /\ accelerators = <<>>
  /\ acceleratorsRegistered = {}
  /\ invoked = <<>>
  /\ calls = <<>>
  /\ loaded = FALSE

Records0 == {NoFile, File(GarbageText), File(JSONstringify(EmptyObj) \o <<"\n">>),
             File(JSONstringify(Obj("X", "Y")) \o <<"\n">>),
             File(JSONstringify(Obj("Z", "Y")) \o <<"\n">>)}
InfoBodies == {GarbageText, JSONstringify(EmptyObj), JSONstringify(Obj("X", "Y"))}

Init ==
  /\ script \in Scripts
  /\ platform \in Platforms
  /\ arch \in Archs
  /\ proc = "load"
  /\ exitCode = -1
  /\ ops = <<>>
  /\ jobs = <<>>
  /\ pending = {}
  /\ recordFile \in Records0
  /\ record0 = recordFile
  /\ infoBody \in InfoBodies
  /\ installTree \in {"absent", "prior"}
  /\ tree0 = installTree
  /\ tempDir = FALSE
  /\ tempFile = FALSE
  /\ mounted = FALSE
  /\ currentBrowserInfo = Undefined
  /\ oldFirefoxInfo = Undefined
  /\ filePath = "undefined"
  /\ fileStream = "undefined"
  /\ checkPromise = "pending"
  /\ finishPromise = "none"
  /\ installRuntime = "undefined"
  /\ redirects = 0
  /\ writing = <<>>
  /\ FetchIdle
  /\ InstallerIdle
  /\ GraftIdle
  /\ ChainIdle
  /\ ShellIdle

\* an exception nobody catches: the process dies with code 1, nothing queued runs
Crash(log) ==
  /\ proc' = "crashed"
  /\ exitCode' = 1
  /\ ops' = log \o <<"uncaughtException">>
  /\ jobs' = <<>>
  /\ pending' = {}

\* fs.ensureDirSync(distDir); const tempDir = fs.mkdtempSync(...)
Workspace == <<"ensureDirSync:distDir", "mkdtempSync:tempDir">>

\* The module body, top to bottom: constants, workspace, the version-check promise's
\* executor, and the executor of the promise stored in installRuntime.
Main ==
  /\ proc = "load"
  /\ LET os == DOWNLOAD_OS(platform, arch) IN
     IF os = "throw"
     THEN \* the older script creates its workspace before it computes DOWNLOAD_OS
          /\ Crash(IF script = "part_000" THEN Workspace ELSE <<>>)
          /\ tempDir' = (script = "part_000")
          /\ UNCHANGED <<installTree, currentBrowserInfo, checkPromise, installRuntime>>
     ELSE \E removeThrows \in BOOLEAN :
          LET check == IF DOWNLOAD_INFO_URL(os) THEN <<"readFile:record">> ELSE <<>>
              inst == CASE platform = "win32" -> <<"remove:runtime:start">>
                        [] platform = "darwin" -> <<"spawn:attach">>
                        [] platform = "linux" ->
                             IF removeThrows THEN <<"removeSync:runtime:throws">>
                             ELSE <<"removeSync:runtime", "decompress:rejected">>
                        [] OTHER -> <<>>
              rejected == platform = "linux" /\ removeThrows
          IN /\ (removeThrows => platform = "linux")
             /\ proc' = "running"
             /\ exitCode' = exitCode
             /\ tempDir' = TRUE
             /\ ops' = Workspace \o check \o inst
             /\ pending' = (IF DOWNLOAD_INFO_URL(os) THEN {"readFile"} ELSE {})
                           \cup (CASE platform = "win32" -> {"remove"}
                                   [] platform = "darwin" -> {"attach"}
                                   [] OTHER -> {})
             /\ checkPromise' = IF DOWNLOAD_INFO_URL(os) THEN "pending" ELSE "resolved"
             /\ currentBrowserInfo' = IF script = "postinstall" THEN EmptyObj ELSE Undefined
             /\ installTree' = IF platform = "linux" /\ ~removeThrows THEN "absent"
                               ELSE installTree
             /\ installRuntime' = IF rejected THEN "rejected" ELSE "pending"
             /\ jobs' = (IF DOWNLOAD_INFO_URL(os) THEN <<>> ELSE <<Job("CheckThen", "undefined")>>)
                        \o (IF rejected THEN <<Job("InstallCatch", "")>> ELSE <<>>)
  /\ UNCHANGED <<script, platform, arch, recordFile, record0, infoBody, tree0, tempFile,
                 mounted, oldFirefoxInfo, filePath, fileStream, finishPromise, redirects,
                 writing, aux>>

\* a macrotask callback runs only when the microtask queue is empty
Idle == proc = "running" /\ jobs = <<>>
\* the reaction at the head of the microtask queue
Running(name) == proc = "running" /\ jobs # <<>> /\ Head(jobs).name = name

\* nothing in flight and nothing queued: the event loop drains and Node exits with 0
Drain ==
  /\ Idle
  /\ pending = {}
  /\ proc' = "exited"
  /\ exitCode' = 0
  /\ UNCHANGED <<script, platform, arch, ops, jobs, pending, recordFile, record0, infoBody,
                 installTree, tree0, tempDir, tempFile, mounted, currentBrowserInfo,
                 oldFirefoxInfo, filePath, fileStream, checkPromise, finishPromise,
                 installRuntime, redirects, writing, aux>>

-----------------------------------------------------------------------------
(* Version check *)

env == <<script, platform, arch, record0, infoBody, tree0, aux>>

\* currentBrowserInfo.buildid === oldFirefoxInfo.buildid &&
\* currentBrowserInfo.target_alias === oldFirefoxInfo.target_alias
isRuntimeUpToDate(current, old) ==
  current.buildid = old.buildid /\ current.target_alias = old.target_alias

\* what the metadata callback hands to JSON.parse: the response object itself in
\* postinstall.js, the body string in the older script
InfoParseInput(s, body) == IF s = "postinstall" THEN ObjectToString ELSE body

\* the callback of fs.readFile on the version record
ReadFileCallback ==
  /\ Idle
  /\ "readFile" \in pending
  /\ LET error == ~recordFile.exists
         \* JSON.parse(data || '{}'): data is undefined on error
         parsed == JSONparse(IF error \/ recordFile.text = <<>> THEN <<"{", "}">>
                             ELSE recordFile.text)
         early == error /\ script = "postinstall"   \* resolve(false), no return
     IN IF ~parsed.ok
        THEN /\ Crash(ops)
             /\ UNCHANGED <<oldFirefoxInfo, checkPromise>>
        ELSE /\ oldFirefoxInfo' = parsed.value
             /\ ops' = ops \o <<"GET:info">>
             /\ pending' = (pending \ {"readFile"}) \cup {"infoReq"}
             /\ checkPromise' = IF early THEN "resolved" ELSE checkPromise
             /\ jobs' = IF early THEN <<Job("CheckThen", "false")>> ELSE jobs
             /\ UNCHANGED <<proc, exitCode>>
  /\ UNCHANGED <<env, recordFile, installTree, tempDir, tempFile, mounted,
                 currentBrowserInfo, filePath, fileStream, finishPromise,
                 installRuntime, redirects, writing>>

\* a promise that could be settled over again
SettlesAgain(promise) == TRUE

\* resolve() and reject() act on a pending promise only
CanSettle(promise) == promise = "pending"

\* reject(e) on the version-check promise: the rejection passes the two then()s and
\* reaches the catch; settling a settled promise does nothing
RejectCheck ==
  /\ checkPromise' = IF CanSettle(checkPromise) THEN "rejected" ELSE checkPromise
  /\ jobs' = IF CanSettle(checkPromise) THEN jobs \o <<Job("CheckCatch", "")>> ELSE jobs

\* the metadata request's response callback
InfoResponse ==
  /\ Idle
  /\ "infoReq" \in pending
  /\ LET parsed == JSONparse(InfoParseInput(script, infoBody))
         same == isRuntimeUpToDate(parsed.value, oldFirefoxInfo)
     IN IF script = "postinstall"
        THEN /\ pending' = pending \ {"infoReq"}
             /\ ops' = ops \o <<"info:response">>
             /\ UNCHANGED <<proc, exitCode>>
             /\ IF ~parsed.ok
                THEN /\ currentBrowserInfo' = EmptyObj
                     /\ RejectCheck
                ELSE /\ currentBrowserInfo' = parsed.value
                     /\ checkPromise' = IF CanSettle(checkPromise) THEN "resolved"
                                        ELSE checkPromise
                     /\ jobs' = IF CanSettle(checkPromise)
                                THEN <<Job("CheckThen", IF same THEN "true" ELSE "undefined")>>
                                ELSE jobs
        ELSE IF ~parsed.ok
             THEN \* JSON.parse(body) throws inside the request callback
                  /\ Crash(ops \o <<"info:response">>)
                  /\ UNCHANGED <<currentBrowserInfo, checkPromise>>
             ELSE /\ pending' = pending \ {"infoReq"}
                  /\ currentBrowserInfo' = parsed.value
                  /\ checkPromise' = "resolved"
                  /\ jobs' = <<Job("CheckThen", IF same THEN "true" ELSE "undefined")>>
                  /\ ops' = ops \o <<"info:response">>
                  /\ UNCHANGED <<proc, exitCode>>
  /\ UNCHANGED <<env, recordFile, installTree, tempDir, tempFile, mounted, oldFirefoxInfo,
                 filePath, fileStream, finishPromise, installRuntime, redirects, writing>>

\* the metadata request fails: 'error' in postinstall.js, callback(error) in the older
\* script, which warns, resolves and goes on to JSON.parse(undefined)
InfoError ==
  /\ Idle
  /\ "infoReq" \in pending
  /\ IF script = "postinstall"
     THEN /\ pending' = pending \ {"infoReq"}
          /\ RejectCheck
          /\ ops' = ops \o <<"info:error">>
          /\ UNCHANGED <<proc, exitCode>>
     ELSE /\ Crash(ops \o <<"info:error">>)
          /\ checkPromise' = "resolved"
  /\ UNCHANGED <<env, recordFile, installTree, tempDir, tempFile, mounted,
                 currentBrowserInfo, oldFirefoxInfo, filePath, fileStream, finishPromise,
                 installRuntime, redirects, writing>>

\* .then((isRuntimeUpToDate) => ...): report, and call downloadRuntime() unless up to date.
\* The older script reads currentFirefoxInfo.buildid for its message, which throws
\* when no metadata was parsed.
CheckThen ==
  /\ Running("CheckThen")
  /\ LET upToDate == Head(jobs).arg = "true"
         throws == currentBrowserInfo = Undefined
     IN IF throws
        THEN /\ jobs' = Tail(jobs) \o <<Job("CheckCatch", "")>>
             /\ UNCHANGED <<ops, pending>>
        ELSE IF upToDate
        THEN /\ ops' = ops \o <<"report:up-to-date">>
             /\ jobs' = Tail(jobs)
             /\ UNCHANGED pending
        ELSE /\ ops' = ops \o <<"report:update-available", "GET:binary">>
             /\ jobs' = Tail(jobs)
             /\ pending' = pending \cup {"binReq"}
  /\ UNCHANGED <<env, proc, exitCode, recordFile, installTree, tempDir, tempFile, mounted,
                 currentBrowserInfo, oldFirefoxInfo, filePath, fileStream, checkPromise,
                 finishPromise, installRuntime, redirects, writing>>

\* .catch of the version-check chain
CheckCatch ==
  /\ Running("CheckCatch")
  /\ ops' = ops \o <<"report:check-failed">>
  /\ jobs' = Tail(jobs)
  /\ UNCHANGED <<env, proc, exitCode, pending, recordFile, installTree, tempDir, tempFile,
                 mounted, currentBrowserInfo, oldFirefoxInfo, filePath, fileStream,
                 checkPromise, finishPromise, installRuntime, redirects, writing>>

-----------------------------------------------------------------------------
(* Download *)

\* the callback of https.get in download(url): follow a redirect, or resolve(response)
BinResponse ==
  /\ Idle
  /\ "binReq" \in pending
  /\ \E redirect \in BOOLEAN, ctype \in ContentTypes :
       IF redirect
       THEN /\ redirects < MaxRedirects
            /\ ctype = "text/html"
            /\ redirects' = redirects + 1
            /\ ops' = ops \o <<"GET:binary">>
            /\ UNCHANGED <<jobs, pending>>
       ELSE /\ jobs' = <<Job("DownloadThen", ctype)>>
            /\ pending' = pending \ {"binReq"}
            /\ UNCHANGED <<ops, redirects>>
  /\ UNCHANGED <<env, proc, exitCode, recordFile, installTree, tempDir, tempFile, mounted,
                 currentBrowserInfo, oldFirefoxInfo, filePath, fileStream, checkPromise,
                 finishPromise, installRuntime, writing>>

\* .on('error', reject) of the binary request: the rejection reaches downloadRuntime's catch
BinError ==
  /\ Idle
  /\ "binReq" \in pending
  /\ jobs' = <<Job("DownloadCatch", "")>>
  /\ pending' = pending \ {"binReq"}
  /\ ops' = ops \o <<"binary:error">>
  /\ UNCHANGED <<env, proc, exitCode, recordFile, installTree, tempDir, tempFile,
                 mounted, currentBrowserInfo, oldFirefoxInfo, filePath, fileStream,
                 checkPromise, finishPromise, installRuntime, redirects, writing>>

\* .then((response) => ...): name the file, open the write stream, pipe the response
DownloadThen ==
  /\ Running("DownloadThen")
  /\ filePath' = RuntimeFile(FILE_EXTENSIONS(Head(jobs).arg))
  /\ fileStream' = "open"
  /\ tempFile' = TRUE
  /\ finishPromise' = "pending"
  /\ ops' = ops \o <<"createWriteStream">>
  /\ pending' = pending \cup {"pipe"}
  /\ jobs' = Tail(jobs)
  /\ UNCHANGED <<env, proc, exitCode, recordFile, installTree, tempDir, mounted,
                 currentBrowserInfo, oldFirefoxInfo, checkPromise, installRuntime,
                 redirects, writing>>

\* if (currentBrowserInfo): an object, even an empty one, is truthy
Truthy(v) == v.type = "object"

\* the text the 'finish' handler writes: JSON.stringify(currentBrowserInfo, null, 2) + '\n'
RecordText(info) == JSONstringify(info) \o <<"\n">>

\* fileStream's 'finish' handler. The stream finishes when the piped response ends, and
\* also after fileStream.end() was called on it by a failure handler.
StreamFinish ==
  /\ Idle
  /\ \/ fileStream = "open" /\ "pipe" \in pending
     \/ fileStream = "ending"
  /\ fileStream' = "finished"
  /\ IF Truthy(currentBrowserInfo)
     THEN /\ writing' = RecordText(currentBrowserInfo)
          /\ pending' = (pending \ {"pipe", "end"}) \cup {"writeRecord"}
          /\ ops' = ops \o <<"finish", "writeFile:record">>
     ELSE /\ pending' = pending \ {"pipe", "end"}
          /\ ops' = ops \o <<"finish">>
          /\ UNCHANGED writing
  /\ finishPromise' = IF finishPromise = "pending" THEN "resolved" ELSE finishPromise
  /\ jobs' = IF finishPromise = "pending" THEN <<Job("DownloadDone", "")>> ELSE jobs
  /\ UNCHANGED <<env, proc, exitCode, recordFile, installTree, tempDir, tempFile, mounted,
                 currentBrowserInfo, oldFirefoxInfo, filePath, checkPromise,
                 installRuntime, redirects>>

\* fs.writeFile lands on disk
WriteRecordDone ==
  /\ Idle
  /\ "writeRecord" \in pending
  /\ recordFile' = File(writing)
  /\ pending' = pending \ {"writeRecord"}
  /\ UNCHANGED <<env, proc, exitCode, ops, jobs, installTree, tempDir, tempFile, mounted,
                 currentBrowserInfo, oldFirefoxInfo, filePath, fileStream, checkPromise,
                 finishPromise, installRuntime, redirects, writing>>

\* response.on('error', reject) while the body is piped
ResponseError ==
  /\ Idle
  /\ fileStream = "open" /\ "pipe" \in pending
  /\ finishPromise' = "rejected"
  /\ jobs' = <<Job("DownloadCatch", "")>>
  /\ pending' = pending \ {"pipe"}
  /\ ops' = ops \o <<"response:error">>
  /\ UNCHANGED <<env, proc, exitCode, recordFile, installTree, tempDir, tempFile,
                 mounted, currentBrowserInfo, oldFirefoxInfo, filePath, fileStream,
                 checkPromise, installRuntime, redirects, writing>>

\* .then(() => spinner('Downloading runtime... done!'))
DownloadDone ==
  /\ Running("DownloadDone")
  /\ ops' = ops \o <<"report:download-done">>
  /\ jobs' = Tail(jobs)
  /\ UNCHANGED <<env, proc, exitCode, pending, recordFile, installTree, tempDir, tempFile,
                 mounted, currentBrowserInfo, oldFirefoxInfo, filePath, fileStream,
                 checkPromise, finishPromise, installRuntime, redirects, writing>>

\* if (fileStream) fileStream.end(): an open stream flushes and will emit 'finish'
EndStream(fs) == IF fs = "open" THEN "ending" ELSE fs

\* downloadRuntime's .catch: report, end the file stream; the error goes no further
DownloadCatch ==
  /\ Running("DownloadCatch")
  /\ ops' = ops \o <<"report:download-failed">>
  /\ fileStream' = EndStream(fileStream)
  /\ pending' = IF fileStream = "open" THEN pending \cup {"end"} ELSE pending
  /\ jobs' = Tail(jobs)
  /\ UNCHANGED <<env, proc, exitCode, recordFile, installTree, tempDir, tempFile, mounted,
                 currentBrowserInfo, oldFirefoxInfo, filePath, checkPromise, finishPromise,
                 installRuntime, redirects, writing>>

-----------------------------------------------------------------------------
(* Install: the executor of the promise stored in installRuntime ran in Main, with     *)
(* filePath still undefined. It takes no resolve or reject, so the promise settles     *)
(* only when the executor throws, and the chains the executor returns are dropped.     *)

\* pify(fs.remove)(runtime) completes on win32; then decompress(undefined, distDir),
\* which rejects with 'Input file required' and touches nothing
RemoveDone ==
  /\ Idle
  /\ "remove" \in pending
  /\ \E error \in BOOLEAN :
       IF error
       THEN /\ ops' = ops \o <<"remove:runtime:error">>
            /\ UNCHANGED installTree
       ELSE /\ ops' = ops \o <<"remove:runtime:done", "decompress:rejected">>
            /\ installTree' = "absent"
  /\ pending' = pending \ {"remove"}
  /\ UNCHANGED <<env, proc, exitCode, jobs, recordFile, tempDir, tempFile, mounted,
                 currentBrowserInfo, oldFirefoxInfo, filePath, fileStream, checkPromise,
                 finishPromise, installRuntime, redirects, writing>>

\* exit codes a spawned hdiutil reports
ExitCodes == {0, 1, 2}

\* the 'exit' event of the attach child, by its code
AttachExited(c) ==
  CASE c = 0 -> "attach:ok"
    [] c = 1 -> "attach:exit:1"
    [] OTHER -> "attach:exit:2"

\* new Error(`'hdiutil attach' exited with code ${exitCode}`)
AttachThrown(c) ==
  CASE c = 1 -> "throw:'hdiutil attach' exited with code 1"
    [] OTHER -> "throw:'hdiutil attach' exited with code 2"

\* a test that lets exit code 1 pass
ExitCodeAboveOne(c) == c > 1

\* if (exitCode)
ExitCodeTruthy(c) == c # 0

\* 'hdiutil attach' exits: a nonzero code throws; otherwise remove the old bundle, copy
\* the mounted one, and spawn 'hdiutil detach' unless the copy threw
AttachExit ==
  /\ Idle
  /\ "attach" \in pending
  /\ \E exitStatus \in ExitCodes, copyThrows \in BOOLEAN :
       IF ExitCodeTruthy(exitStatus)
       THEN /\ ~copyThrows
            /\ ops' = ops \o <<AttachExited(exitStatus), AttachThrown(exitStatus)>>
            /\ pending' = pending \ {"attach"}
            /\ UNCHANGED <<installTree, mounted>>
       ELSE /\ mounted' = TRUE
            /\ IF copyThrows
               THEN /\ installTree' = "partial"
                    /\ ops' = ops \o <<AttachExited(exitStatus), "removeSync:bundle",
                                       "copySync:throws">>
                    /\ pending' = pending \ {"attach"}
               ELSE /\ installTree' = "new"
                    /\ ops' = ops \o <<AttachExited(exitStatus), "removeSync:bundle",
                                       "copySync:bundle", "spawn:detach">>
                    /\ pending' = (pending \ {"attach"}) \cup {"detach"}
  /\ UNCHANGED <<env, proc, exitCode, jobs, recordFile, tempDir, tempFile,
                 currentBrowserInfo, oldFirefoxInfo, filePath, fileStream, checkPromise,
                 finishPromise, installRuntime, redirects, writing>>

\* the attach child emits 'error' (it could not be spawned): the chain is rejected
AttachError ==
  /\ Idle
  /\ "attach" \in pending
  /\ ops' = ops \o <<"attach:error">>
  /\ pending' = pending \ {"attach"}
  /\ UNCHANGED <<env, proc, exitCode, jobs, recordFile, installTree, tempDir, tempFile,
                 mounted, currentBrowserInfo, oldFirefoxInfo, filePath, fileStream,
                 checkPromise, finishPromise, installRuntime, redirects, writing>>

\* 'hdiutil detach' exits: a nonzero code throws and the volume stays mounted
DetachExit ==
  /\ Idle
  /\ "detach" \in pending
  /\ \E exitStatus \in {0, 1} :
       /\ mounted' = (exitStatus # 0)
       /\ ops' = ops \o <<IF exitStatus = 0 THEN "detach:ok" ELSE "detach:failed">>
  /\ pending' = pending \ {"detach"}
  /\ UNCHANGED <<env, proc, exitCode, jobs, recordFile, installTree, tempDir, tempFile,
                 currentBrowserInfo, oldFirefoxInfo, filePath, fileStream, checkPromise,
                 finishPromise, installRuntime, redirects, writing>>

\* the detach child emits 'error'
DetachError ==
  /\ Idle
  /\ "detach" \in pending
  /\ ops' = ops \o <<"detach:error">>
  /\ pending' = pending \ {"detach"}
  /\ UNCHANGED <<env, proc, exitCode, jobs, recordFile, installTree, tempDir, tempFile,
                 mounted, currentBrowserInfo, oldFirefoxInfo, filePath, fileStream,
                 checkPromise, finishPromise, installRuntime, redirects, writing>>

\* the .catch after the post-install chain: report, end the file stream
InstallCatch ==
  /\ Running("InstallCatch")
  /\ ops' = ops \o <<"report:setup-failed">>
  /\ fileStream' = EndStream(fileStream)
  /\ pending' = IF fileStream = "open" THEN pending \cup {"end"} ELSE pending
  /\ jobs' = Tail(jobs) \o <<Job("Cleanup", "")>>
  /\ UNCHANGED <<env, proc, exitCode, recordFile, installTree, tempDir, tempFile, mounted,
                 currentBrowserInfo, oldFirefoxInfo, filePath, checkPromise, finishPromise,
                 installRuntime, redirects, writing>>

\* the final .then: fs.removeSync(filePath) asserts that it is given a path, so with
\* filePath undefined it throws before rmdirSync and process.exit are reached
Cleanup ==
  /\ Running("Cleanup")
  /\ IF filePath = "undefined"
     THEN /\ ops' = ops \o <<"cleanup:removeSync:throws">>
          /\ jobs' = Tail(jobs)
          /\ UNCHANGED <<proc, exitCode, pending, tempDir, tempFile>>
     ELSE /\ tempFile' = FALSE
          /\ tempDir' = FALSE
          /\ ops' = ops \o <<"cleanup:removeSync", "cleanup:rmdirSync", "process.exit">>
          /\ proc' = "exited"
          /\ exitCode' = 0
          /\ jobs' = <<>>
          /\ pending' = {}
  /\ UNCHANGED <<env, recordFile, installTree, mounted, currentBrowserInfo, oldFirefoxInfo,
                 filePath, fileStream, checkPromise, finishPromise, installRuntime,
                 redirects, writing>>

-----------------------------------------------------------------------------

Next ==
  \/ Main
  \/ ReadFileCallback
  \/ InfoResponse
  \/ InfoError
  \/ CheckThen
  \/ CheckCatch
  \/ BinResponse
  \/ BinError
  \/ DownloadThen
  \/ StreamFinish
  \/ WriteRecordDone
  \/ ResponseError
  \/ DownloadDone
  \/ DownloadCatch
  \/ RemoveDone
  \/ AttachExit
  \/ AttachError
  \/ DetachExit
  \/ DetachError
  \/ InstallCatch
  \/ Cleanup
  \/ Drain

Spec == Init /\ [][Next]_vars

-----------------------------------------------------------------------------
(* The Archive Fetcher on its own: download(url) of downloadRuntime against a *)
(* server that answers each request with a redirect, a final response or an   *)
(* error. URLs are sequences of characters; a long stretch of characters no   *)
(* pattern looks at is written as one element.                                *)

\* redirect responses the server is allowed before it answers finally or fails
MaxHops == 11

InstallerSuffix == <<".", "i", "n", "s", "t", "a", "l", "l", "e", "r", ".", "e", "x", "e">>
ZipSuffix == <<".", "z", "i", "p">>
DmgSuffix == <<".", "d", "m", "g">>
TarSuffix == <<".", "t", "a", "r", ".", "b", "z", "2">>

Nightly == "https://archive.mozilla.org/pub/firefox/nightly/2017/04/firefox-55.0a1.en-US"
Latest == "https://download.mozilla.org/?product=firefox-nightly-latest-ssl&lang=en-US&os="
Mirror == "https://download-installer.cdn.mozilla.net/pub/firefox/nightly/firefox-55.0a1.en-US"

\* DOWNLOAD_BIN_URLS[os]; <<>> is undefined (there is a key 'mac' and no key 'osx')
DOWNLOAD_BIN_URLS(os) ==
  CASE os = "linux" -> <<Nightly, ".linux-i686">> \o TarSuffix
    [] os = "linux64" -> <<Nightly, ".linux-x86_64">> \o TarSuffix
    [] os = "mac" -> <<Nightly, ".mac">> \o DmgSuffix
    [] os = "win" -> <<Nightly, ".win32">> \o InstallerSuffix
    [] os = "win64" -> <<Nightly, ".win64">> \o InstallerSuffix
    [] OTHER -> <<>>

\* const DOWNLOAD_URL = DOWNLOAD_BIN_URLS[DOWNLOAD_OS] || `...&os=${DOWNLOAD_OS}`
DOWNLOAD_URL(os) ==
  IF DOWNLOAD_BIN_URLS(os) # <<>> THEN DOWNLOAD_BIN_URLS(os) ELSE <<Latest, os>>

\* s.replace(/pat$/, rep) for a pattern of literal characters: the one match, if any,
\* is the occurrence of pat that ends the string
ReplaceAtEnd(s, pat, rep) ==
  IF Len(s) >= Len(pat) /\ SubSeq(s, Len(s) - Len(pat) + 1, Len(s)) = pat
  THEN SubSeq(s, 1, Len(s) - Len(pat)) \o rep
  ELSE s

\* the rewrite applied whatever the platform is
RewriteOnAnyPlatform(p, loc) == ReplaceAtEnd(loc, InstallerSuffix, ZipSuffix)

\* the URL download() follows for a redirect to loc
RewriteLocation(p, loc) ==
  IF p = "win32" THEN ReplaceAtEnd(loc, InstallerSuffix, ZipSuffix) ELSE loc

\* the Location headers the server sends
Locations ==
  { <<Mirror, ".win32">> \o InstallerSuffix,
    <<Mirror, ".win32">> \o ZipSuffix,
    <<Mirror, ".mac">> \o DmgSuffix,
    <<Mirror>> \o InstallerSuffix \o <<"?", "x">>,
    <<Mirror>> \o InstallerSuffix \o InstallerSuffix,
    <<Mirror, "x", "i", "n", "s", "t", "a", "l", "l", "e", "r", "x", "e", "x", "e">>,
    <<Mirror>> \o Tail(InstallerSuffix),
    InstallerSuffix,
    <<Mirror, ".", "e", "x", "e">> }

\* the state of the pipeline before the module body has run
Unstarted ==
  /\ proc = "load"
  /\ exitCode = -1
  /\ ops = <<>>
  /\ jobs = <<>>
  /\ pending = {}
  /\ recordFile = NoFile
  /\ record0 = NoFile
  /\ infoBody = JSONstringify(EmptyObj)
  /\ installTree = "absent"
  /\ tree0 = "absent"
  /\ tempDir = FALSE
  /\ tempFile = FALSE
  /\ mounted = FALSE
  /\ currentBrowserInfo = Undefined
  /\ oldFirefoxInfo = Undefined
  /\ filePath = "undefined"
  /\ fileStream = "undefined"
  /\ checkPromise = "pending"
  /\ finishPromise = "none"
  /\ installRuntime = "undefined"
  /\ writing = <<>>

pipeline == <<proc, exitCode, ops, jobs, pending, recordFile, record0, infoBody,
              installTree, tree0, tempDir, tempFile, mounted, currentBrowserInfo,
              oldFirefoxInfo, filePath, fileStream, checkPromise, finishPromise,
              installRuntime, writing>>

InitFetch ==
  /\ script = "postinstall"
  /\ platform \in Platforms
  /\ arch \in Archs
  /\ DOWNLOAD_OS(platform, arch) # "throw"
  /\ Unstarted
  /\ redirects = 0
  /\ FetchIdle
  /\ InstallerIdle
  /\ GraftIdle
  /\ ChainIdle
  /\ ShellIdle

\* download(DOWNLOAD_URL): the first request
FetchStart ==
  /\ fetch = "idle"
  /\ fetch' = "requesting"
  /\ url' = DOWNLOAD_URL(DOWNLOAD_OS(platform, arch))
  /\ UNCHANGED <<script, platform, arch, pipeline, installerVars, graftVars, chainVars, shellVars, redirects, location>>

\* the https.get callback: a response with a non-empty Location header is followed,
\* any other response resolves the promise
FetchResponse ==
  /\ fetch = "requesting"
  /\ \E loc \in Locations \cup {<<>>} :
       IF loc # <<>>
       THEN /\ redirects < MaxHops
            /\ location' = loc
            /\ url' = RewriteLocation(platform, loc)
            /\ redirects' = redirects + 1
            /\ fetch' = fetch
       ELSE /\ fetch' = "resolved"
            /\ UNCHANGED <<url, location, redirects>>
  /\ UNCHANGED <<script, platform, arch, pipeline, installerVars, graftVars, chainVars, shellVars>>

\* the request emits 'error': reject
FetchError ==
  /\ fetch = "requesting"
  /\ fetch' = "rejected"
  /\ UNCHANGED <<script, platform, arch, pipeline, installerVars, graftVars, chainVars, shellVars, redirects, url, location>>

NextFetch == FetchStart \/ FetchResponse \/ FetchError

SpecFetch == InitFetch /\ [][NextFetch]_vars

-----------------------------------------------------------------------------
(* The Platform Installer of win32 and linux on its own: remove the runtime  *)
(* directory, expand the archive into the dist directory, rename firefox to  *)
(* runtime; run after run, where a run may be stopped at any point. source   *)
(* is the archive path the installer is given; as bin/postinstall.js is      *)
(* wired it is always undefined, and a run with it fails at decompress.      *)

\* runs of the installer in a row
MaxRuns == 3

\* the entries under firefox/ of the archives of two builds
Archives == {{"firefox-bin", "omni.ja"}, {"firefox-bin", "libxul.so"}}

ArchivePath(p) == RuntimeFile(IF p = "win32" THEN "zip" ELSE "tar.bz2")

\* decompress(source, destination): every entry of the archive is written under
\* destination/firefox; entries already there under other names stay
Decompress(dir, entries) == Dir(dir.entries \cup entries)

InitInstaller ==
  /\ script = "postinstall"
  /\ platform \in {"win32", "linux"}
  /\ arch = "x64"
  /\ Unstarted
  /\ redirects = 0
  /\ FetchIdle
  /\ GraftIdle
  /\ ChainIdle
  /\ ShellIdle
  /\ runtimeDir \in {NoDir} \cup {Dir(a) : a \in Archives}
  /\ firefoxDir = NoDir
  /\ archive \in Archives
  /\ source \in {"undefined", ArchivePath(platform)}
  /\ installStep = "start"
  /\ installRun = 1

\* fs.remove / fs.removeSync of destination/runtime
InstallerRemove ==
  /\ installStep = "start"
  /\ runtimeDir' = NoDir
  /\ installStep' = "removed"
  /\ UNCHANGED <<script, platform, arch, pipeline, redirects, fetchVars, graftVars, chainVars,
                 shellVars,
                 firefoxDir, archive, source, installRun>>

\* decompress(source, destination); it rejects when source is undefined
InstallerDecompress ==
  /\ installStep = "removed"
  /\ IF source = "undefined"
     THEN /\ installStep' = "failed"
          /\ firefoxDir' = firefoxDir
     ELSE /\ installStep' = "expanded"
          /\ firefoxDir' = Decompress(firefoxDir, archive)
  /\ UNCHANGED <<script, platform, arch, pipeline, redirects, fetchVars, graftVars, chainVars,
                 shellVars,
                 runtimeDir, archive, source, installRun>>

\* fs.rename / fs.renameSync of destination/firefox to destination/runtime
InstallerRename ==
  /\ installStep = "expanded"
  /\ runtimeDir' = firefoxDir
  /\ firefoxDir' = NoDir
  /\ installStep' = "renamed"
  /\ UNCHANGED <<script, platform, arch, pipeline, redirects, fetchVars, graftVars, chainVars,
                 shellVars,
                 archive, source, installRun>>

\* the process is killed before the installer is through
InstallerStopped ==
  /\ installStep \in {"start", "removed", "expanded"}
  /\ installStep' = "stopped"
  /\ UNCHANGED <<script, platform, arch, pipeline, redirects, fetchVars, graftVars, chainVars,
                 shellVars,
                 runtimeDir, firefoxDir, archive, source, installRun>>

\* the script is run again, with the archive of either build
InstallerRunAgain ==
  /\ installStep \in {"renamed", "failed", "stopped"}
  /\ installRun < MaxRuns
  /\ installRun' = installRun + 1
  /\ installStep' = "start"
  /\ archive' \in Archives
  /\ source' \in {"undefined", ArchivePath(platform)}
  /\ UNCHANGED <<script, platform, arch, pipeline, redirects, fetchVars, graftVars, chainVars,
                 shellVars,
                 runtimeDir, firefoxDir>>

NextInstaller ==
  \/ InstallerRemove
  \/ InstallerDecompress
  \/ InstallerRename
  \/ InstallerStopped
  \/ InstallerRunAgain

SpecInstaller == InitInstaller /\ [][NextInstaller]_vars

-----------------------------------------------------------------------------
(* bin/postinstall-xulapp.js run as a script (require.main === module): the  *)
(* Bundle Grafter, exports.install(), and the report of its outcome.         *)

\* const files
files == {"application.ini", "chrome", "chrome.manifest", "components", "defaults",
          "devtools.manifest", "modules"}

\* const OPENVR_ENABLED
OPENVR_ENABLED == TRUE

\* the bindings of the module: what it requires and what it declares
ModuleScope == {"chalk", "cli", "fs", "path", "pify", "request", "OPENVR_ENABLED",
                "OPENVR_URL", "distDir", "installDir", "resourcesDir", "openvrPath"}

\* a copy that reports no error for a missing source
CopyNeverFails(file, present) == FALSE

\* pify(fs.copy)(src, dst) rejects (ENOENT) when src does not exist
CopyFails(file, present) == file \notin present

\* a combinator that is fulfilled by the first fulfilment
AnyCopyDone(inflight) == TRUE

\* Promise.all is fulfilled when every promise is
AllCopiesDone(inflight) == inflight = {}

InitXulapp ==
  /\ script = "xulapp"
  /\ platform \in Platforms
  /\ arch = "x64"
  /\ Unstarted
  /\ redirects = 0
  /\ FetchIdle
  /\ InstallerIdle
  /\ sourceFiles \in SUBSET files
  /\ targetDir \in BOOLEAN
  /\ copying = {}
  /\ copied = {}
  /\ allCopies = "none"
  /\ installError = "none"
  /\ ChainIdle
  /\ ShellIdle

held == <<script, platform, arch, exitCode, recordFile, record0, infoBody, installTree,
          tree0, tempDir, tempFile, mounted, currentBrowserInfo, oldFirefoxInfo, filePath,
          fileStream, checkPromise, finishPromise, installRuntime, writing, redirects,
          fetchVars, installerVars, sourceFiles, chainVars, shellVars>>

\* the module body: exports.install() is called and starts fs.ensureDir(targetDir)
XulappMain ==
  /\ script = "xulapp"
  /\ proc = "load"
  /\ proc' = "running"
  /\ ops' = <<"report:installing-xulapp", "ensureDir:targetDir">>
  /\ pending' = {"ensureDir"}
  /\ UNCHANGED <<held, jobs, targetDir, copying, copied, allCopies, installError>>

\* fs.ensureDir calls back
EnsureDirDone ==
  /\ Idle
  /\ "ensureDir" \in pending
  /\ pending' = pending \ {"ensureDir"}
  /\ \E error \in BOOLEAN :
       IF error
       THEN /\ installError' = "ensureDir"
            /\ jobs' = <<Job("XulappReport", "rejected")>>
            /\ targetDir' = targetDir
       ELSE /\ installError' = installError
            /\ jobs' = <<Job("CopyAll", "")>>
            /\ targetDir' = TRUE
  /\ UNCHANGED <<held, proc, ops, copying, copied, allCopies>>

\* Promise.all(files.map(file => pify(fs.copy)(...))): the seven copies are started
CopyAll ==
  /\ Running("CopyAll")
  /\ jobs' = Tail(jobs)
  /\ copying' = files
  /\ allCopies' = "pending"
  /\ pending' = pending \cup {"copy"}
  /\ ops' = ops \o <<"copy:start">>
  /\ UNCHANGED <<held, proc, targetDir, copied, installError>>

\* one fs.copy calls back; the first failure rejects the Promise.all, the last
\* success fulfils it
CopyDone ==
  /\ Idle
  /\ \E file \in copying :
       LET rest == copying \ {file}
           fails == CopyFails(file, sourceFiles)
           settles == allCopies = "pending" /\ (fails \/ AllCopiesDone(rest))
       IN /\ copying' = rest
          /\ copied' = IF fails THEN copied ELSE copied \cup {file}
          /\ pending' = IF rest = {} THEN pending \ {"copy"} ELSE pending
          /\ allCopies' = IF ~settles THEN allCopies
                          ELSE IF fails THEN "rejected" ELSE "resolved"
          /\ installError' = IF settles /\ fails THEN file ELSE installError
          /\ jobs' = IF ~settles THEN jobs
                     ELSE IF fails THEN <<Job("XulappReport", "rejected")>>
                     ELSE <<Job("OpenVR", "")>>
  /\ UNCHANGED <<held, proc, ops, targetDir>>

\* the executor of the promise around the OpenVR download
OpenVR ==
  /\ Running("OpenVR")
  /\ IF ~OPENVR_ENABLED
     THEN /\ jobs' = Tail(jobs) \o <<Job("XulappReport", "resolved")>>
          /\ ops' = ops \o <<"executor:openvr">>
          /\ UNCHANGED <<pending, installError>>
     ELSE IF "OPENVR_DLL_URL" \in ModuleScope
     THEN /\ jobs' = Tail(jobs)
          /\ ops' = ops \o <<"executor:openvr", "request:openvr">>
          /\ pending' = pending \cup {"openvr"}
          /\ UNCHANGED installError
     ELSE /\ jobs' = Tail(jobs) \o <<Job("XulappReport", "rejected")>>
          /\ ops' = ops \o <<"executor:openvr", "throw:ReferenceError">>
          /\ installError' = "ReferenceError: OPENVR_DLL_URL is not defined"
          /\ UNCHANGED pending
  /\ UNCHANGED <<held, proc, targetDir, copying, copied, allCopies>>

\* .then(() => '… done!').catch(error => '… failed!')
XulappReport ==
  /\ Running("XulappReport")
  /\ jobs' = Tail(jobs)
  /\ ops' = ops \o <<IF Head(jobs).arg = "resolved" THEN "report:xulapp-done"
                     ELSE "report:xulapp-failed">>
  /\ UNCHANGED <<held, proc, pending, targetDir, copying, copied, allCopies, installError>>

NextXulapp ==
  \/ XulappMain
  \/ EnsureDirDone
  \/ CopyAll
  \/ CopyDone
  \/ OpenVR
  \/ XulappReport
  \/ Drain

SpecXulapp == InitXulapp /\ [][NextXulapp]_vars

-----------------------------------------------------------------------------
(* The post-install chain: the reactions chained on the install promise,     *)
(* bin/postinstall.js 273-351 and the same lines of the older script, run    *)
(* from the moment the install promise is fulfilled with the archive in      *)
(* tempDir and the new tree in place. A path is the sequence of its          *)
(* components below the dist directory.                                      *)

\* const installDir
installDir(s, p) ==
  (IF s = "postinstall" THEN <<p>> ELSE <<>>)
    \o <<IF p = "darwin" THEN "Runtime.app" ELSE "runtime">>

\* const resourcesDir
resourcesDir(s, p) ==
  IF p = "darwin" THEN installDir(s, p) \o <<"Contents", "Resources">> ELSE installDir(s, p)

\* const executableDir
executableDir(s, p) ==
  IF p = "darwin" THEN installDir(s, p) \o <<"Contents", "MacOS">> ELSE installDir(s, p)

\* const appFiles, in the order of the copy loop
appFiles == <<"application.ini", "chrome", "chrome.manifest", "components", "defaults",
              "devtools.manifest", "modules">>

\* const prefFiles
prefFiles == <<"debugger.js", "devtools.js">>

\* a copy that skips a missing source without an error
copySyncSkips(file, present) == FALSE

\* fs.copySync(src, dst) throws (ENOENT) when src does not exist
copySyncThrows(file, present) == file \notin present

RECURSIVE copyLoop(_, _, _)
\* for (const file of list) fs.copySync(...): the files copied, and whether the loop
\* was left by an exception
copyLoop(list, present, done) ==
  IF list = <<>> THEN [copied |-> done, threw |-> FALSE]
  ELSE IF copySyncThrows(Head(list), present) THEN [copied |-> done, threw |-> TRUE]
  ELSE copyLoop(Tail(list), present, done \cup ({Head(list)} \cap present))

\* the files a build's omni.ja may hold under defaults/preferences
OmniArchives == {{"debugger.js", "devtools.js", "firefox.js"}, {"debugger.js", "firefox.js"},
                 {"firefox.js"}}

\* a launcher step that copies the shell stub whatever the platform
ShellStubEverywhere(s, p) == {[dir |-> executableDir(s, p), name |-> "launcher.sh"]}

\* the stub copied by the launcher step: where it goes and its name
LauncherStub(s, p) ==
  CASE p = "win32" -> {[dir |-> executableDir(s, p), name |-> "launcher.bat"]}
    [] p = "darwin" -> {[dir |-> executableDir(s, p), name |-> "launcher.sh"]}
    [] p = "linux" -> {[dir |-> executableDir(s, p), name |-> "launcher.sh"]}
    [] OTHER -> {}

(* Info.plist. The file is a sequence of <<key, tag, text>> entries; the parsed  *)
(* object is a sequence of properties in insertion order, a value being its      *)
(* JavaScript type and its printed form.                                         *)

PlistKeys == {"CFBundleExecutable", "CFBundleName", "NSHighResolutionCapable",
              "CFBundleInfoDictionaryVersion", "LSMinimumSystemVersionByArchitecture"}

\* the number a numeric text denotes, printed the way JavaScript prints it
NumberText(text) ==
  CASE text = "6.0" -> "6"
    [] text = "1.50" -> "1.5"
    [] OTHER -> text

\* the JavaScript value of one entry
EntryValue(tag, text) ==
  CASE tag = "string" -> [type |-> "string", v |-> text]
    [] tag \in {"integer", "real"} -> [type |-> "number", v |-> NumberText(text)]
    [] tag \in {"true", "false"} -> [type |-> "boolean", v |-> tag]
    [] OTHER -> [type |-> "undefined", v |-> ""]

\* obj[key] = value: an existing property keeps its place, a new one goes last
Put(obj, key, value) ==
  IF \E i \in 1..Len(obj) : obj[i].key = key
  THEN [i \in 1..Len(obj) |->
          IF obj[i].key = key THEN [key |-> key, value |-> value] ELSE obj[i]]
  ELSE Append(obj, [key |-> key, value |-> value])

RECURSIVE plistParseFrom(_, _, _)
plistParseFrom(file, i, obj) ==
  IF i > Len(file) THEN obj
  ELSE plistParseFrom(file, i + 1, Put(obj, file[i][1], EntryValue(file[i][2], file[i][3])))

\* plist.readFileSync(plistFile)
plistParse(file) == plistParseFrom(file, 1, <<>>)

\* a number is written as <integer> when it is whole, as <real> otherwise
NumberTag(v) == IF v = "1.5" THEN "real" ELSE "integer"

\* plist.writeFileSync(plistFile, obj): the document built from the object
plistBuild(obj) ==
  [i \in 1..Len(obj) |->
     LET value == obj[i].value
     IN CASE value.type = "string" -> <<obj[i].key, "string", value.v>>
          [] value.type = "number" -> <<obj[i].key, NumberTag(value.v), value.v>>
          [] OTHER -> <<obj[i].key, value.v, "">>]

\* a manifest written anew with the executable name alone
OnlyExecutable(appPlist) ==
  <<[key |-> "CFBundleExecutable", value |-> [type |-> "string", v |-> "launcher.sh"]]>>

\* appPlist.CFBundleExecutable = 'launcher.sh'
SetExecutable(appPlist) ==
  Put(appPlist, "CFBundleExecutable", [type |-> "string", v |-> "launcher.sh"])

\* the manifests a bundle may carry
PlistFiles ==
  { << <<"CFBundleExecutable", "string", "firefox">>,
       <<"CFBundleName", "string", "Nightly">>,
       <<"NSHighResolutionCapable", "true", "">> >>,
    << <<"CFBundleInfoDictionaryVersion", "real", "6.0">>,
       <<"CFBundleExecutable", "string", "firefox">>,
       <<"LSMinimumSystemVersionByArchitecture", "real", "1.50">> >>,
    << <<"CFBundleName", "string", "Nightly">>,
       <<"CFBundleInfoDictionaryVersion", "integer", "6">> >> }

InitChain ==
  /\ script \in Scripts
  /\ platform \in {"win32", "linux", "darwin"}
  /\ arch = "x64"
  /\ proc = "running"
  /\ exitCode = -1
  /\ ops = <<>>
  /\ jobs = <<>>
  /\ pending = {"install"}
  /\ recordFile = File(JSONstringify(EmptyObj) \o <<"\n">>)
  /\ record0 = NoFile
  /\ infoBody = JSONstringify(EmptyObj)
  /\ installTree = "new"
  /\ tree0 = "absent"
  /\ tempDir = TRUE
  /\ tempFile = TRUE
  /\ mounted = FALSE
  /\ currentBrowserInfo = EmptyObj
  /\ oldFirefoxInfo = Undefined
  /\ filePath = (IF platform = "darwin" THEN RuntimeFile("dmg") ELSE ArchivePath(platform))
  /\ fileStream = "finished"
  /\ checkPromise = "resolved"
  /\ finishPromise = "resolved"
  /\ installRuntime = "pending"
  /\ writing = <<>>
  /\ redirects = 0
  /\ FetchIdle
  /\ InstallerIdle
  /\ ShellIdle
  /\ sourceFiles \in {files} \cup {files \ {file} : file \in files}
  /\ targetDir = FALSE
  /\ copying = {}
  /\ copied = {}
  /\ allCopies = "none"
  /\ installError = "none"
  /\ browserDir = NoDir
  /\ prefsDir = {}
  /\ prefsJs = <<>>
  /\ stubs = {}
  /\ infoPlist \in (IF platform = "darwin" THEN PlistFiles ELSE {<<>>})
  /\ plist0 = infoPlist

\* what the chain leaves alone
fixed == <<script, platform, arch, exitCode, recordFile, record0, infoBody, installTree,
           tree0, tempDir, tempFile, mounted, currentBrowserInfo, oldFirefoxInfo, filePath,
           fileStream, checkPromise, finishPromise, writing, redirects, fetchVars,
           installerVars, sourceFiles, shellVars, plist0>>

\* the last callback of the platform install: the install promise is fulfilled
InstallDone ==
  /\ Idle
  /\ "install" \in pending
  /\ pending' = pending \ {"install"}
  /\ installRuntime' = "resolved"
  /\ ops' = ops \o <<"install:done">>
  /\ jobs' = <<Job("GraftThen", "")>>
  /\ UNCHANGED <<fixed, proc, graftVars, browserDir, prefsDir, prefsJs, stubs, infoPlist>>

\* .then(() => postinstallXULApp.install()) of bin/postinstall.js; in the older script
\* the executor that makes the directory, copies the companion files one after
\* another and requests the OpenVR library
GraftThen ==
  /\ Running("GraftThen")
  /\ IF script = "postinstall"
     THEN /\ ops' = ops \o <<"ensureDir:targetDir">>
          /\ pending' = pending \cup {"ensureDir"}
          /\ jobs' = Tail(jobs)
          /\ UNCHANGED <<targetDir, copied, installError>>
     ELSE IF targetDir
     THEN /\ ops' = ops \o <<"mkdirSync:targetDir:throws">>
          /\ installError' = "EEXIST"
          /\ jobs' = Tail(jobs) \o <<Job("InstallCatch", "")>>
          /\ UNCHANGED <<pending, targetDir, copied>>
     ELSE LET loop == copyLoop(appFiles, sourceFiles, {})
              asks == ~loop.threw /\ OPENVR_ENABLED
          IN /\ targetDir' = TRUE
             /\ copied' = loop.copied
             /\ installError' = IF loop.threw THEN "ENOENT" ELSE installError
             /\ ops' = ops \o <<"mkdirSync:targetDir", "copySync:appFiles">>
                           \o (IF loop.threw THEN <<"copySync:throws">>
                               ELSE IF asks THEN <<"request:openvr">>
                               ELSE <<"graft:done">>)
             /\ pending' = IF asks THEN pending \cup {"openvr"} ELSE pending
             /\ jobs' = Tail(jobs) \o (IF loop.threw THEN <<Job("InstallCatch", "")>>
                                       ELSE IF asks THEN <<>>
                                       ELSE <<Job("ExtractThen", "")>>)
  /\ UNCHANGED <<fixed, proc, installRuntime, copying, allCopies, chainVars>>

\* the promise install() returned settles and the chain adopts its state
GraftSettled ==
  /\ Running("XulappReport")
  /\ script = "postinstall"
  /\ ops' = ops \o <<IF Head(jobs).arg = "resolved" THEN "graft:done" ELSE "graft:failed">>
  /\ jobs' = Tail(jobs) \o <<Job(IF Head(jobs).arg = "resolved" THEN "ExtractThen"
                                 ELSE "InstallCatch", "")>>
  /\ UNCHANGED <<fixed, proc, pending, installRuntime, graftVars, browserDir, prefsDir,
                 prefsJs, stubs, infoPlist>>

\* the OpenVR request emits 'end', whose handler closes the write stream, or 'error'
OpenVREnd ==
  /\ Idle
  /\ "openvr" \in pending
  /\ \E error \in BOOLEAN :
       IF error
       THEN /\ pending' = pending \ {"openvr"}
            /\ ops' = ops \o <<"openvr:error">>
            /\ installError' = "openvr"
            /\ jobs' = <<Job("InstallCatch", "")>>
       ELSE /\ pending' = (pending \ {"openvr"}) \cup {"close"}
            /\ ops' = ops \o <<"openvr:end">>
            /\ UNCHANGED <<installError, jobs>>
  /\ UNCHANGED <<fixed, proc, installRuntime, targetDir, copying, copied, allCopies,
                 browserDir, prefsDir, prefsJs, stubs, infoPlist>>

\* the callback of openvrReq.close: the preference line is appended, then resolve()
OpenVRClosed ==
  /\ Idle
  /\ "close" \in pending
  /\ pending' = pending \ {"close"}
  /\ prefsJs' = Append(prefsJs, "pref('gfx.vr.openvr-runtime')")
  /\ ops' = ops \o <<"appendFileSync:prefs.js", "graft:done">>
  /\ jobs' = <<Job("ExtractThen", "")>>
  /\ UNCHANGED <<fixed, proc, installRuntime, graftVars, browserDir, prefsDir, stubs,
                 infoPlist>>

\* .then(() => pify(extract)(browserJAR, { dir: targetDir }))
ExtractThen ==
  /\ Running("ExtractThen")
  /\ ops' = ops \o <<"extract:start">>
  /\ pending' = pending \cup {"extract"}
  /\ jobs' = Tail(jobs)
  /\ UNCHANGED <<fixed, proc, installRuntime, graftVars, browserDir, prefsDir, prefsJs,
                 stubs, infoPlist>>

\* extract-zip calls back: with an error, or with the archive expanded
ExtractDone ==
  /\ Idle
  /\ "extract" \in pending
  /\ pending' = pending \ {"extract"}
  /\ \/ /\ ops' = ops \o <<"extract:error">>
        /\ jobs' = <<Job("InstallCatch", "")>>
        /\ UNCHANGED browserDir
     \/ \E entries \in OmniArchives :
          /\ browserDir' = Dir(entries)
          /\ ops' = ops \o <<"extract:done">>
          /\ jobs' = <<Job("PrefsThen", "")>>
  /\ UNCHANGED <<fixed, proc, installRuntime, graftVars, prefsDir, prefsJs, stubs,
                 infoPlist>>

\* the loop over prefFiles
PrefsThen ==
  /\ Running("PrefsThen")
  /\ LET loop == copyLoop(prefFiles, browserDir.entries, {})
     IN /\ prefsDir' = prefsDir \cup loop.copied
        /\ ops' = ops \o <<"copySync:prefFiles">>
                      \o (IF loop.threw THEN <<"copySync:throws">> ELSE <<"prefs:done">>)
        /\ jobs' = Tail(jobs) \o <<Job(IF loop.threw THEN "InstallCatch"
                                       ELSE "LauncherThen", "")>>
  /\ UNCHANGED <<fixed, proc, pending, installRuntime, graftVars, browserDir, prefsJs,
                 stubs, infoPlist>>

\* switch (process.platform): the stub is copied; on darwin the manifest is read,
\* given the stub as its executable and written back
LauncherThen ==
  /\ Running("LauncherThen")
  /\ stubs' = stubs \cup LauncherStub(script, platform)
  /\ infoPlist' = IF platform = "darwin"
                  THEN plistBuild(SetExecutable(plistParse(infoPlist)))
                  ELSE infoPlist
  /\ ops' = ops \o <<"copySync:launcher">>
                \o (IF platform = "darwin" THEN <<"plist:write">> ELSE <<>>)
  /\ jobs' = Tail(jobs) \o <<Job("DoneThen", "")>>
  /\ UNCHANGED <<fixed, proc, pending, installRuntime, graftVars, browserDir, prefsDir,
                 prefsJs>>

\* .then(() => cli.spinner('… Setting up runtime… done!'))
DoneThen ==
  /\ Running("DoneThen")
  /\ ops' = ops \o <<"report:setup-done">>
  /\ jobs' = Tail(jobs) \o <<Job("Cleanup", "")>>
  /\ UNCHANGED <<fixed, proc, pending, installRuntime, graftVars, browserDir, prefsDir,
                 prefsJs, stubs, infoPlist>>

NextChain ==
  \/ InstallDone
  \/ GraftThen
  \/ EnsureDirDone
  \/ CopyAll
  \/ CopyDone
  \/ OpenVR
  \/ GraftSettled
  \/ OpenVREnd
  \/ OpenVRClosed
  \/ ExtractThen
  \/ ExtractDone
  \/ PrefsThen
  \/ LauncherThen
  \/ DoneThen
  \/ InstallCatch
  \/ Cleanup

SpecChain == InitChain /\ [][NextChain]_vars

-----------------------------------------------------------------------------
(* shell/shell.js: the GlobalShortcut object of the shell window, its load   *)
(* handler and the calls that can be made on it. Accelerator strings are     *)
(* sequences of characters, a word no conversion looks into being written as *)
(* one element. A call that throws leaves the state as it was at the throw.  *)

\* calls and events after the load handler
MaxCalls == 3

AccF5 == <<"F", "5">>
AccF5Spaced == <<"F", "5", " ">>
AccReload == <<"CommandOrControl", "+", "R">>
AccDevtoolsAlt == <<"CommandOrControl", "+", "Alt", "+", "I">>
AccDevtoolsOption == <<"CommandOrControl", "+", "Option", "+", "I">>
Accelerators == {AccF5, AccF5Spaced, AccReload, AccDevtoolsAlt, AccDevtoolsOption}

\* the callbacks of the load handler
Callbacks == {"toggleDevTools", "reload"}

\* String.prototype.toLowerCase, element by element
toLowerCase(c) ==
  CASE c = "F" -> "f"
    [] c = "R" -> "r"
    [] c = "I" -> "i"
    [] c = "Alt" -> "alt"
    [] c = "Option" -> "option"
    [] c = "CommandOrControl" -> "commandorcontrol"
    [] OTHER -> c

\* accelerator.toString().toLowerCase().replace(/\s*/g, '')
Normalize(accelerator) ==
  LET lower == [i \in 1..Len(accelerator) |-> toLowerCase(accelerator[i])]
  IN SelectSeq(lower, LAMBDA c : c # " ")

\* the property names of GLOBAL_SHORTCUT_ACCELERATORS
GLOBAL_SHORTCUT_ACCELERATORS == {<<"null">>, <<"f", "5">>, <<"commandorcontrol", "+", "r">>}

\* the property name a function value turns into: its source text
GenericMatcher == <<"event => event.key && event.key.toLowerCase() === acceleratorKey">>

\* getAcceleratorKey of a string: the normalized string when it names a property of
\* GLOBAL_SHORTCUT_ACCELERATORS, else the function GLOBAL_SHORTCUT_ACCELERATORS[null];
\* key is the value used as a property name
getAcceleratorKey(accelerator) ==
  IF Normalize(accelerator) \in GLOBAL_SHORTCUT_ACCELERATORS
  THEN [type |-> "string", key |-> Normalize(accelerator)]
  ELSE [type |-> "function", key |-> GenericMatcher]

\* acceleratorKey in this.acceleratorsRegistered
InRegistry(registry, acceleratorKey) == \E entry \in registry : entry.key = acceleratorKey.key

\* this.isRegistered
isRegistered(accelerator) == InRegistry(acceleratorsRegistered, getAcceleratorKey(accelerator))

\* this.register on a state [accelerators, registry, threw]: an entry is assigned only
\* when the key is already in the registry; otherwise push is called on undefined
register(st, accelerator, callback) ==
  LET acceleratorKey == getAcceleratorKey(accelerator)
      shortcut == [accelerator |-> acceleratorKey, callback |-> callback]
  IN IF InRegistry(st.registry, acceleratorKey)
     THEN [accelerators |-> Append(st.accelerators, shortcut),
           registry |-> {e \in st.registry : e.key # acceleratorKey.key}
                          \cup {[key |-> acceleratorKey.key, shortcuts |-> <<shortcut>>]},
           threw |-> "none"]
     ELSE [st EXCEPT !.threw = "TypeError"]

\* the register calls of the load handler, in order
LoadRegistrations ==
  << <<AccDevtoolsAlt, "toggleDevTools">>, <<AccDevtoolsOption, "toggleDevTools">>,
     <<AccF5, "reload">>, <<AccReload, "reload">> >>

\* the load handler runs its register calls until one throws; log is the calls made
RECURSIVE RunLoad(_, _, _)
RunLoad(st, i, log) ==
  IF i > Len(LoadRegistrations) \/ st.threw # "none"
  THEN [st |-> st, log |-> log]
  ELSE LET next == register(st, LoadRegistrations[i][1], LoadRegistrations[i][2])
       IN RunLoad(next, i + 1,
                  Append(log, [op |-> "register", accelerator |-> LoadRegistrations[i][1],
                               callback |-> LoadRegistrations[i][2], threw |-> next.threw]))

\* the keydown listener on a list of shortcuts: a shortcut with a callback and a
\* function accelerator evaluates acceleator(event), an unbound name
RECURSIVE keydown(_, _)
keydown(shortcuts, ran) ==
  IF shortcuts = <<>>
  THEN [invoked |-> ran, threw |-> "none"]
  ELSE IF Head(shortcuts).accelerator.type = "function"
  THEN [invoked |-> ran, threw |-> "ReferenceError"]
  ELSE keydown(Tail(shortcuts), ran)

\* keydown events: F5, F5 with shift, r with meta
Events == {"F5", "Shift+F5", "Meta+r"}

InitShell ==
  /\ script = "shell"
  /\ platform \in Platforms
  /\ arch = "x64"
  /\ Unstarted
  /\ redirects = 0
  /\ FetchIdle
  /\ InstallerIdle
  /\ GraftIdle
  /\ ChainIdle
  /\ ShellIdle

outside == <<script, platform, arch, pipeline, redirects, fetchVars, installerVars,
             graftVars, chainVars>>

\* window 'load': new GlobalShortcut(browser) and the four register calls
ShellLoad ==
  /\ ~loaded
  /\ loaded' = TRUE
  /\ LET run == RunLoad([accelerators |-> <<>>, registry |-> {}, threw |-> "none"], 1, <<>>)
     IN /\ accelerators' = run.st.accelerators
        /\ acceleratorsRegistered' = run.st.registry
        /\ calls' = run.log
  /\ UNCHANGED <<outside, invoked>>

\* globalShortcut.register(accelerator, callback)
ShellRegister ==
  /\ loaded
  /\ Len(calls) < MaxCalls
  /\ \E accelerator \in Accelerators, callback \in Callbacks :
       LET st == register([accelerators |-> accelerators,
                           registry |-> acceleratorsRegistered, threw |-> "none"],
                          accelerator, callback)
       IN /\ accelerators' = st.accelerators
          /\ acceleratorsRegistered' = st.registry
          /\ calls' = Append(calls, [op |-> "register", accelerator |-> accelerator,
                                     callback |-> callback, threw |-> st.threw])
  /\ UNCHANGED <<outside, invoked, loaded>>

\* globalShortcut.unregister(accelerator): the delete removes no element, and
\* this.acceleratorsRegistered, an object, has no forEach
ShellUnregister ==
  /\ loaded
  /\ Len(calls) < MaxCalls
  /\ \E accelerator \in Accelerators :
       calls' = Append(calls, [op |-> "unregister", accelerator |-> accelerator,
                               callback |-> "", threw |-> "TypeError"])
  /\ UNCHANGED <<outside, accelerators, acceleratorsRegistered, invoked, loaded>>

\* globalShortcut.unregisterAll(): this.accelerators.length = {} is an invalid array
\* length, thrown before the registry is replaced
ShellUnregisterAll ==
  /\ loaded
  /\ Len(calls) < MaxCalls
  /\ calls' = Append(calls, [op |-> "unregisterAll", accelerator |-> <<>>,
                             callback |-> "", threw |-> "RangeError"])
  /\ UNCHANGED <<outside, accelerators, acceleratorsRegistered, invoked, loaded>>

\* a keydown event reaches the listener
ShellKeydown ==
  /\ loaded
  /\ Len(calls) < MaxCalls
  /\ \E event \in Events :
       LET run == keydown(accelerators, <<>>)
       IN /\ invoked' = invoked \o run.invoked
          /\ calls' = Append(calls, [op |-> "keydown", accelerator |-> <<event>>,
                                     callback |-> "", threw |-> run.threw])
  /\ UNCHANGED <<outside, accelerators, acceleratorsRegistered, loaded>>

NextShell ==
  \/ ShellLoad
  \/ ShellRegister
  \/ ShellUnregister
  \/ ShellUnregisterAll
  \/ ShellKeydown

SpecShell == InitShell /\ [][NextShell]_vars

-----------------------------------------------------------------------------
(* Properties *)

Did(op) == \E i \in 1..Len(ops) : ops[i] = op
\* every logged operation of A comes after some earlier occurrence of b
AllAfter(A, b) ==
  \A i \in 1..Len(ops) : ops[i] \in A => \E j \in 1..(i - 1) : ops[j] = b
\* no operation of A is logged after the first occurrence of b
NoneAfter(A, b) ==
  \A i, j \in 1..Len(ops) : (ops[i] = b /\ i < j) => ops[j] \notin A

\* what the Platform Installer does to the install tree, the archive and the disk image
InstallerOps == {"remove:runtime:start", "remove:runtime:done", "removeSync:runtime",
                 "removeSync:runtime:throws", "decompress:rejected", "spawn:attach",
                 "removeSync:bundle", "copySync:bundle", "copySync:throws", "spawn:detach"}
\* the installer operations that are begun by a callback, after the module body
LateInstallerOps == {"removeSync:bundle", "copySync:bundle", "copySync:throws",
                     "spawn:detach"}

\* Cleanup ran to its end: archive and temporary directory removed, process.exit() called
CleanedUp == ~tempDir /\ ~tempFile /\ Did("process.exit")

\* the stored descriptor the oracle works with: the record's, or {} for a missing record
Stored == JSONparse(IF record0.exists THEN record0.text ELSE <<"{", "}">>)
\* the descriptor the metadata endpoint serves
Fetched == JSONparse(infoBody)
SameBuild == Stored.ok /\ Fetched.ok /\ isRuntimeUpToDate(Fetched.value, Stored.value)

\* the OS/architecture pairs DOWNLOAD_OS names; darwin is taken with any architecture
Supported(p, a) == (p \in {"win32", "linux"} /\ a \in {"ia32", "x64"}) \/ p = "darwin"
\* bin/postinstall.js, the entry script of the package, on a platform it supports
Primary == script = "postinstall" /\ Supported(platform, arch)
\* a descriptor with both fields present
Complete(d) == d.buildid # "undefined" /\ d.target_alias # "undefined"

\* C1: in a run that downloads, no Platform Installer operation (tree removal, archive
\* expansion, disk-image attach) happens before the file stream's 'finish': the stages
\* run in the order version check, download, install.
C1_InstallOnlyAfterFetch ==
  (Primary /\ Did("GET:binary")) => AllAfter(InstallerOps, "finish")

\* C2: every run that created its temporary workspace has, when the process has ended
\* normally, executed Cleanup: archive and temporary directory removed, then exit.
C2_CleanupAlwaysRuns ==
  (Primary /\ proc = "exited" /\ Did("mkdtempSync:tempDir")) => CleanedUp

DownloadFailed == Did("binary:error") \/ Did("response:error")

\* C3: after a failed binary download (request error or response error) the persisted
\* version record is what it was when the run began.
C3_FailedDownloadKeepsRecord ==
  (Primary /\ DownloadFailed) => recordFile = record0

\* C4: when the metadata answered and the stored and fetched descriptors carry the same
\* buildid and target_alias, no binary request is made and the install tree is what it
\* was when the run began.
C4_UpToDateTouchesNothing ==
  (Primary /\ Did("info:response") /\ record0.exists /\ SameBuild /\ Complete(Fetched.value))
    => (~Did("GET:binary") /\ installTree = tree0)

\* C5: once the metadata has answered with a descriptor and the oracle has reacted: for
\* descriptors with both fields it has reported up-to-date exactly when buildid and
\* target_alias are both equal and update-available exactly when they are not, and for
\* any descriptors that differ it has reported update-available and not up-to-date.
C5_OracleIffEqual ==
  (Primary /\ Did("info:response") /\ Stored.ok /\ Fetched.ok /\ jobs = <<>>)
    => /\ (Complete(Stored.value) /\ Complete(Fetched.value))
            => /\ Did("report:up-to-date") <=> SameBuild
               /\ Did("report:update-available") <=> ~SameBuild
       /\ ~SameBuild => (Did("report:update-available") /\ ~Did("report:up-to-date"))

MetadataFailed == Did("info:error") \/ (Did("info:response") /\ ~Fetched.ok)

\* C6: a network or parse failure of the metadata request does not fail the run: once
\* the failure has been handled the check has not failed and the download was started.
C6_MetadataFailOpen ==
  (Primary /\ MetadataFailed /\ jobs = <<>>)
    => (proc # "crashed" /\ ~Did("report:check-failed") /\ Did("GET:binary"))

\* C7: a run whose binary download failed has, when the process has ended, reported the
\* failure, begun no installer operation after it, and gone through Cleanup.
C7_DownloadFailureAborts ==
  (Primary /\ DownloadFailed /\ proc = "exited")
    => /\ Did("report:download-failed")
       /\ NoneAfter(LateInstallerOps, "report:download-failed")
       /\ CleanedUp

\* C8: the persisted record is the one the run began with unless the install tree holds
\* the newly installed build.
C8_RecordIsLastInstalled ==
  (Primary /\ recordFile # record0) => installTree = "new"

\* C9: on an unsupported OS/architecture pair the run fails with the configuration
\* error before any filesystem or network operation.
C9_ConfigErrorBeforeIO ==
  (script = "postinstall" /\ proc # "load" /\ ~Supported(platform, arch))
    => (proc = "crashed" /\ ops = <<"uncaughtException">> /\ ~tempDir)

\* C10: with a missing or unparsable version record the readFile callback still
\* completes the check's next step (the metadata request is issued): it is not fatal.
C10_BadRecordNotFatal ==
  (Primary /\ (~Stored.ok \/ ~record0.exists) /\ Did("readFile:record")
     /\ "readFile" \notin pending)
    => Did("GET:info")

\* C11: with no local version record and complete remote metadata, whenever the run has
\* written the version record it is exactly the fetched descriptor.
C11_RecordIsFetchedDescriptor ==
  (Primary /\ ~record0.exists /\ Fetched.ok /\ Complete(Fetched.value)
     /\ recordFile # record0)
    => recordFile = File(RecordText(Fetched.value))

HasSuffix(s, suf) == \E k \in 0..Len(s) : s = SubSeq(s, 1, k) \o suf

\* C12: the URL requested after a redirect is, on win32 and for a Location ending in
\* '.installer.exe', the Location with that suffix replaced by '.zip' and the rest
\* identical; in every other case it is the Location itself.
C12_RedirectRewriting ==
  location # <<>> =>
    /\ (platform = "win32" /\ HasSuffix(location, InstallerSuffix))
         => \E k \in 0..Len(location) :
              /\ location = SubSeq(location, 1, k) \o InstallerSuffix
              /\ url = SubSeq(location, 1, k) \o ZipSuffix
    /\ (platform # "win32" \/ ~HasSuffix(location, InstallerSuffix)) => url = location

\* a redirect to an installer link has been followed on win32
C12_Witness ==
  /\ platform = "win32"
  /\ fetch = "requesting"
  /\ HasSuffix(location, InstallerSuffix)
  /\ HasSuffix(url, ZipSuffix)

\* C13: the fetcher never follows more than ten redirects.
C13_AtMostTenRedirects == redirects <= 10

\* C14: when the final response is handed on, a content type outside the three known
\* ones creates no archive file and opens no stream; a known one names the archive
\* runtime.dmg, runtime.zip or runtime.tar.bz2.
C14_UnknownTypeIsFatal ==
  [][(Primary /\ Running("DownloadThen")) =>
       LET ctype == Head(jobs).arg IN
       CASE ctype = "application/x-apple-diskimage" -> filePath' = "runtime.dmg"
         [] ctype = "application/zip" -> filePath' = "runtime.zip"
         [] ctype = "application/x-tar" -> filePath' = "runtime.tar.bz2"
         [] OTHER -> (tempFile' = FALSE /\ fileStream' = "undefined")]_vars

\* C16: once 'hdiutil attach' has exited with a nonzero code, an error naming that code
\* has been thrown, the destination bundle is as the run found it, and no removal, no
\* copy and no detach has been performed.
C16_AttachFailureStopsInstall ==
  /\ Did("attach:exit:1") => Did("throw:'hdiutil attach' exited with code 1")
  /\ Did("attach:exit:2") => Did("throw:'hdiutil attach' exited with code 2")
  /\ (Did("attach:exit:1") \/ Did("attach:exit:2"))
       => /\ installTree = tree0
          /\ ~mounted
          /\ ~Did("removeSync:bundle")
          /\ ~Did("copySync:bundle")
          /\ ~Did("copySync:throws")
          /\ ~Did("spawn:detach")

\* the attach of a run on macOS has exited with code 2 and the process has ended
C16_Witness ==
  platform = "darwin" /\ tree0 = "prior" /\ Did("attach:exit:2") /\ proc = "exited"

\* C17: a run that attached the disk image successfully has, when the process has
\* ended, invoked the detach.
C17_DetachAfterAttach ==
  (Primary /\ proc = "exited" /\ Did("attach:ok")) => Did("spawn:detach")

\* C19: when the run has ended the install tree is the complete tree the run began
\* with or the complete new one.
C19_TreeCompleteAfterRun ==
  (Primary /\ proc \in {"exited", "crashed"}) => (installTree = tree0 \/ installTree = "new")

C15_OneMutationAtATime ==
  Cardinality(copying) + (IF "ensureDir" \in pending THEN 1 ELSE 0) <= 1

\* C15 (amended): the steps do not overlap: the companion copies start only once the
\* target directory has been ensured, and the step after them starts only when all
\* seven copies are complete.
C15_StepsDoNotOverlap ==
  /\ "ensureDir" \in pending => (copying = {} /\ ~Did("copy:start"))
  /\ copying # {} => targetDir
  /\ Did("executor:openvr") => (copying = {} /\ copied = files)

\* several companion copies are in flight at once, some already complete
C15_Witness ==
  script = "xulapp" /\ Cardinality(copying) >= 2 /\ copied # {}

\* C20: once the copy of an absent companion entry has completed and the reactions
\* have run, install() is rejected for an absent entry and the failure is reported,
\* with nothing but present entries copied; and a run with an absent entry that has
\* ended has reported failure.
C20_MissingEntryFailsGraft ==
  /\ (allCopies # "none" /\ jobs = <<>> /\ (files \ sourceFiles) \ copying # {})
       => /\ allCopies = "rejected"
          /\ installError \in files \ sourceFiles
          /\ Did("report:xulapp-failed")
          /\ ~Did("report:xulapp-done")
          /\ copied \subseteq sourceFiles
  /\ (script = "xulapp" /\ proc = "exited" /\ sourceFiles # files)
       => (Did("report:xulapp-failed") /\ ~Did("report:xulapp-done"))

\* a run with only chrome absent has ended: failure reported, the six others copied
C20_Witness ==
  /\ proc = "exited"
  /\ sourceFiles = files \ {"chrome"}
  /\ copied = sourceFiles
  /\ installError = "chrome"
  /\ Did("report:xulapp-failed")

\* C21: a run of the grafter with every companion entry present and all seven copies
\* complete has, when the process has ended, downloaded the library and reported
\* success.
C21_GraftWithLibrarySucceeds ==
  (script = "xulapp" /\ OPENVR_ENABLED /\ sourceFiles = files /\ allCopies = "resolved"
     /\ proc = "exited")
    => /\ Did("request:openvr")
       /\ Did("report:xulapp-done")
       /\ installError = "none"

\* a fatal pipeline error has been reported
FatalReported == Did("report:download-failed") \/ Did("report:setup-failed")

\* C24: a process that has ended ended at the end of Cleanup, with exit code 0 if no
\* fatal pipeline error occurred and with a nonzero exit code if one did.
C24_ExitCodeTellsOutcome ==
  (Primary /\ proc = "exited")
    => /\ Did("process.exit")
       /\ FatalReported <=> exitCode # 0

\* C25: the download is reported done only after the archive's file stream has
\* emitted 'finish', and no operation of the next step, the installer, starts before
\* that event.
C25_DoneOnlyAfterFinish ==
  Primary => /\ AllAfter({"report:download-done"}, "finish")
             /\ AllAfter(InstallerOps, "finish")

Count(op) == Cardinality({i \in 1..Len(ops) : ops[i] = op})
Outcomes ==
  Count("report:up-to-date") + Count("report:update-available")
    + Count("report:check-failed")

\* C27: a run starts at most one binary download (one request besides the redirects
\* followed, one archive stream) and reports at most one outcome of the version check,
\* exactly one once the check has settled and its reactions have run.
C27_OneCheckOutcomeOneDownload ==
  /\ Count("GET:binary") <= 1 + redirects
  /\ Count("createWriteStream") <= 1
  /\ Outcomes <= 1
  /\ (checkPromise # "pending" /\ jobs = <<>> /\ proc # "crashed") => Outcomes = 1

\* no local record: the check resolved early and the download started, and the
\* metadata request failed afterwards
C27_Witness ==
  /\ script = "postinstall"
  /\ ~record0.exists
  /\ Did("GET:binary")
  /\ Did("info:error")
  /\ checkPromise = "resolved"

\* the last call made on the GlobalShortcut
LastCall == calls[Len(calls)]

\* C28: right after register('F5', cb), isRegistered('F5') is true and an unmodified
\* keydown of F5 invokes cb.
C28_RegisteredShortcutFires ==
  (calls # <<>> /\ LastCall.op = "register" /\ LastCall.accelerator = AccF5)
    => /\ isRegistered(AccF5)
       /\ \E i \in 1..Len(accelerators) :
            /\ accelerators[i].callback = LastCall.callback
            /\ accelerators[i].accelerator.key = <<"f", "5">>
       /\ keydown(accelerators, <<>>).threw = "none"

\* accelerator a was registered by a call and neither unregister(a) nor unregisterAll
\* was called since
RegisteredSince(a) ==
  \E i \in 1..Len(calls) :
    /\ calls[i].op = "register"
    /\ calls[i].accelerator = a
    /\ \A j \in (i + 1)..Len(calls) :
         ~(calls[j].op = "unregisterAll"
           \/ (calls[j].op = "unregister" /\ calls[j].accelerator = a))

\* C29: isRegistered(a) is true exactly when a was registered and not unregistered
\* since, and two registered accelerators that differ after normalization have
\* different registry entries.
C29_RegistryTracksCalls ==
  /\ \A a \in Accelerators : isRegistered(a) <=> RegisteredSince(a)
  /\ \A a, b \in Accelerators :
       (RegisteredSince(a) /\ RegisteredSince(b) /\ Normalize(a) # Normalize(b))
         => getAcceleratorKey(a).key # getAcceleratorKey(b).key

\* the value of a key in a manifest file, as the program reading it would see it
ValueOf(file, key) ==
  LET obj == plistParse(file)
  IN IF \E i \in 1..Len(obj) : obj[i].key = key
     THEN (CHOOSE p \in {obj[i] : i \in 1..Len(obj)} : p.key = key).value
     ELSE [type |-> "undefined", v |-> ""]

\* C22: the launcher step rewrites the property-list manifest only on macOS, and
\* there only the executable-name key changes, to the name of the launcher stub:
\* every other key has the value it had before the step, and a key that was absent
\* stays absent. Before the step, and on Windows and Linux, the file is untouched.
C22_ManifestFrame ==
  /\ (platform # "darwin" \/ ~Did("plist:write")) => infoPlist = plist0
  /\ Did("plist:write") =>
       /\ ValueOf(infoPlist, "CFBundleExecutable") = [type |-> "string", v |-> "launcher.sh"]
       /\ \A key \in PlistKeys \ {"CFBundleExecutable"} :
            ValueOf(infoPlist, key) = ValueOf(plist0, key)

\* the step has run on macOS over a manifest that holds other keys, one of them a
\* number written as a real, and the file is no longer what it was
C22_Witness ==
  /\ platform = "darwin"
  /\ Did("plist:write")
  /\ infoPlist # plist0
  /\ \E i \in 1..Len(plist0) : plist0[i][2] = "real"
  /\ ValueOf(plist0, "CFBundleExecutable").v = "firefox"

\* C23: the launcher step copies exactly one stub, into the executable directory:
\* launcher.bat on Windows and launcher.sh on Linux and macOS; the executable
\* directory is the install root (runtime) on Windows and Linux and Contents/MacOS of
\* the bundle (Runtime.app) on macOS.
C23_OneStubByPlatform ==
  Did("copySync:launcher") =>
    /\ Cardinality(stubs) = 1
    /\ \A stub \in stubs :
         LET n == Len(stub.dir)
         IN CASE platform = "win32" ->
                   stub.name = "launcher.bat" /\ stub.dir[n] = "runtime"
              [] platform = "linux" ->
                   stub.name = "launcher.sh" /\ stub.dir[n] = "runtime"
              [] platform = "darwin" ->
                   /\ stub.name = "launcher.sh"
                   /\ n >= 3
                   /\ SubSeq(stub.dir, n - 2, n) = <<"Runtime.app", "Contents", "MacOS">>
              [] OTHER -> FALSE

\* the launcher step has run on macOS
C23_Witness ==
  /\ platform = "darwin"
  /\ Did("copySync:launcher")
  /\ stubs # {}

\* C26: the steps of the post-install chain are ordered. The extraction of omni.ja
\* starts only after the platform install and the graft have completed (every
\* companion file copied, none in flight); the preference files are copied only after
\* the extraction has completed; the launcher is installed only after both
\* preference files have been copied.
C26_ChainOrder ==
  /\ AllAfter({"extract:start"}, "install:done")
  /\ AllAfter({"extract:start"}, "graft:done")
  /\ Did("extract:start") => (copied = files /\ copying = {} /\ "openvr" \notin pending)
  /\ AllAfter({"copySync:prefFiles"}, "extract:done")
  /\ Did("copySync:prefFiles") => (browserDir.exists /\ "extract" \notin pending)
  /\ AllAfter({"copySync:launcher", "plist:write"}, "prefs:done")
  /\ Did("copySync:launcher") => prefsDir = {"debugger.js", "devtools.js"}

\* the whole chain has run: graft, extraction, preference copy, launcher
C26_Witness ==
  /\ Did("graft:done")
  /\ Did("extract:done")
  /\ Did("prefs:done")
  /\ Did("copySync:launcher")
  /\ Did("report:setup-done")

====
